---- MODULE Spec2Model ----
(***************************************************************************)
(* e-Distribuzione CSV middleware: the /refresh handler of main.py, the    *)
(* Playwright flow of edis_pw.py (refresh_with_session, refresh_with_login *)
(* and their helpers) and the CSV parser _parse_csv_to_rows.               *)
(*                                                                         *)
(* Two /refresh invocations run on one asyncio event loop.  Every action   *)
(* is the code between two suspension points of one invocation; helpers    *)
(* that touch no state shared between invocations (_goto_curve_page,       *)
(* _select_period) are one action each, their control flow computed by an  *)
(* operator from the outcomes of the browser calls they make.              *)
(***************************************************************************)
EXTENDS Integers, Sequences, FiniteSets, TLC

VARIABLES
    inv,                    \* per invocation: the handler's and the flow's locals
    clock,                  \* int(time.time()), in seconds
    tmp_files,              \* tempfile.gettempdir(): file name -> content
    cache_csv,              \* storage/<key>.csv: key -> content
    cache_json,             \* storage/<key>.json: key -> content
    storage_state_exists,   \* whether the session snapshot file is on disk
    parse,                  \* one call of _parse_csv_to_rows or _parse_number: its locals
    api_key,                \* API_KEY, the server's key ("" when none is configured)
    req                     \* the last /data or /csv request and its answer

vars ==
    <<inv, clock, tmp_files, cache_csv, cache_json, storage_state_exists, parse,
      api_key, req>>

-----------------------------------------------------------------------------
(* Bounds *)

MaxClock == 1               \* the clock runs over 0..MaxClock seconds

Invs == {1, 2}              \* the concurrent /refresh invocations
Keys == {"IT001_2025-08-01_2025-08-31"}     \* cache basenames requested

\* The RefreshPayload bodies posted: every combination of present and empty
\* credentials without a saved session (None is falsy like ""), and the saved
\* session, which needs none.
Payloads ==
    [ use_storage : {FALSE}, username : {"", "user"}, password : {"", "secret"}, key : Keys ]
    \cup [ use_storage : {TRUE}, username : {""}, password : {""}, key : Keys ]

\* A file's content is the download it holds: Download(i) is what the portal sent
\* to invocation i.  NoFile is a path with no file behind it.
NoFile == << >>
Download(i) == <<i>>

\* os.path.join(tempfile.gettempdir(), f"edis_{int(time.time())}.csv")
TmpName(t) == <<"edis", t>>
TmpNames == {TmpName(t) : t \in 0..MaxClock}
NoPath == << >>

-----------------------------------------------------------------------------
(* Program constants *)

labels == << "Scarica il dettaglio quartorario .csv",
             "Scarica il dettaglio quartorario",
             "Download CSV",
             "Scarica csv" >>

locs == << "get_by_role_button", "get_by_text" >>

CURVE_URL == "curvedicarico"
BASE_URL == "PortaleClienti"

strategies == << "_try_set_period_by_selects", "_try_set_period_by_inputs" >>

\* The candidates in the order the nested loops of _click_download_csv visit them.
NumCandidates == Len(labels) * Len(locs)

Candidate(n) ==
    [ label |-> labels[((n - 1) \div Len(locs)) + 1],
      loc   |-> locs[((n - 1) % Len(locs)) + 1] ]

-----------------------------------------------------------------------------
(* The /refresh handler: entry *)

\* API_KEY = os.getenv("API_KEY", "").strip(): unset, or a key
ApiKeys == {"", "k3y"}

\* The X-API-Key header of a request: absent (None), the key, another value
NoHeader == "None"
XApiKeys == {NoHeader, "k3y", "wrong"}

NoRequest == [endpoint |-> "none"]
NoResponse == [status_code |-> 0]
NoCall == [pc |-> "none"]
NoStep == [fn |-> "none"]

Fresh ==
    [ pc           |-> "idle",
      x_api_key    |-> NoHeader,    \* the header api_key_guard is given
      payload      |-> [use_storage |-> FALSE, username |-> "", password |-> "",
                        key |-> CHOOSE k \in Keys : TRUE],
      log_messages |-> << >>,
      pw           |-> "none",      \* async_playwright(): none, started, stopped
      browser      |-> "none",      \* none, launched, closed
      ctx          |-> "none",      \* none, open, closed
      navigated    |-> FALSE,       \* some page.goto was issued
      stored       |-> FALSE,       \* the handler wrote a cache file
      cand         |-> 0,           \* candidate of _click_download_csv being tried
      tmp          |-> NoPath,      \* the path computed for download.save_as
      csv_path     |-> NoPath,      \* what _click_download_csv returned
      data         |-> NoFile,      \* the bytes read back from csv_path
      last         |-> NoStep,      \* what the helper that ran last did
      response     |-> NoResponse ]

\* log(msg): log_messages.append(str(msg))
log(r, msg) == [r EXCEPT !.log_messages = Append(@, msg)]

\* not payload.username or not payload.password
MissingCredentialsUsernameOnly(p) == p.username = ""

MissingCredentials(p) == p.username = "" \/ p.password = ""

\* The handler has answered: its locals and the flow's are gone.
Done(r) ==
    [r EXCEPT !.pc = "done", !.cand = 0, !.tmp = NoPath, !.csv_path = NoPath,
              !.data = NoFile]

\* raise HTTPException(status_code=400, detail=...): FastAPI answers {"detail": ...}
HTTP400(r) ==
    [Done(r) EXCEPT
              !.response = [status_code |-> 400,
                            detail |-> "username/password mancanti",
                            has_log |-> FALSE, log |-> << >>]]

\* A handler that runs the flow again after an exception.
RaiseAndRestart(r, detail) == [Fresh EXCEPT !.payload = r.payload, !.pc = "dispatch"]

\* An exception leaves `async with async_playwright()` (the driver is stopped) and
\* reaches `except Exception` of the handler: JSONResponse 500 {detail, log}.
Raise(r, detail) ==
    [Done(r) EXCEPT
              !.pw = IF @ = "started" THEN "stopped" ELSE @,
              !.response = [status_code |-> 500, detail |-> detail,
                            has_log |-> TRUE, log |-> r.log_messages]]

\* A guard that lets every request with a header through.
api_key_guard_any_header(x_api_key) ==
    IF api_key = "" THEN "pass"
    ELSE IF x_api_key = NoHeader THEN "401" ELSE "pass"

\* api_key_guard: not applied without a server key; else the header must equal it.
api_key_guard(x_api_key) ==
    IF api_key = "" THEN "pass"
    ELSE IF x_api_key # api_key THEN "401" ELSE "pass"

\* raise HTTPException(status_code=401, detail="API key non valida")
HTTP401(r) ==
    [Done(r) EXCEPT
              !.response = [status_code |-> 401, detail |-> "API key non valida",
                            has_log |-> FALSE, log |-> << >>]]

\* dependencies=[Depends(api_key_guard)] of /refresh: the guard runs before the body.
Guard(i) ==
    /\ inv[i].pc = "idle"
    /\ \E x \in XApiKeys :
         LET r == [inv[i] EXCEPT !.x_api_key = x]
         IN  inv' = [inv EXCEPT ![i] =
                        IF api_key_guard(x) = "401" THEN HTTP401(r)
                        ELSE [r EXCEPT !.pc = "refresh"]]
    /\ UNCHANGED <<clock, tmp_files, cache_csv, cache_json, storage_state_exists, parse,
                 api_key, req>>

Refresh(i) ==
    /\ inv[i].pc = "refresh"
    /\ \E p \in Payloads :
         LET r == [inv[i] EXCEPT !.payload = p, !.log_messages = << >>,
                                 !.x_api_key = NoHeader]
         IN  inv' = [inv EXCEPT ![i] =
                        IF ~p.use_storage /\ MissingCredentials(p)
                        THEN HTTP400(r)
                        ELSE [r EXCEPT !.pc = "dispatch"]]
    /\ UNCHANGED <<clock, tmp_files, cache_csv, cache_json, storage_state_exists, parse,
                 api_key, req>>

\* refresh_and_download_csv: runs the session flow or the login flow.
RefreshAndDownloadCsv(i) ==
    /\ inv[i].pc = "dispatch"
    /\ inv' = [inv EXCEPT ![i] = [log(@, "avvio") EXCEPT !.pc = "async_playwright"]]
    /\ UNCHANGED <<clock, tmp_files, cache_csv, cache_json, storage_state_exists, parse,
                 api_key, req>>

-----------------------------------------------------------------------------
(* refresh_with_session / refresh_with_login *)

AsyncPlaywright(i) ==
    /\ inv[i].pc = "async_playwright"
    /\ inv' = [inv EXCEPT ![i] = [@ EXCEPT !.pw = "started", !.pc = "launch"]]
    /\ UNCHANGED <<clock, tmp_files, cache_csv, cache_json, storage_state_exists, parse,
                 api_key, req>>

Launch(i) ==
    /\ inv[i].pc = "launch"
    /\ \/ inv' = [inv EXCEPT ![i] = [@ EXCEPT !.browser = "launched", !.pc = "new_context"]]
       \/ inv' = [inv EXCEPT ![i] = Raise(@, "launch failed")]
    /\ UNCHANGED <<clock, tmp_files, cache_csv, cache_json, storage_state_exists, parse,
                 api_key, req>>

\* browser.new_context(storage_state=path) reads the snapshot file and raises
\* when it is absent; refresh_with_login passes no storage_state.
NewContext(i) ==
    /\ inv[i].pc = "new_context"
    /\ inv' = [inv EXCEPT ![i] =
                 IF @.payload.use_storage /\ ~storage_state_exists
                 THEN Raise(@, "storage_state: no such file")
                 ELSE [@ EXCEPT !.ctx = "open", !.pc = "goto"]]
    /\ UNCHANGED <<clock, tmp_files, cache_csv, cache_json, storage_state_exists, parse,
                 api_key, req>>

\* _goto_curve_page, from the outcomes e of its browser calls.  The first
\* page.goto is outside any try: when it throws nothing else is attempted.
\* _wait_curve_ready polls page.content() at most three times and returns.
GotoCurvePage(e) ==
    LET wait == [raised |-> FALSE, polls |-> IF e.ready = 0 THEN 3 ELSE e.ready]
        fail == [raised |-> TRUE, polls |-> 0]
        out(res, gotos) ==
            [fn |-> "_goto_curve_page", raised |-> res.raised, polls |-> res.polls,
             gotos |-> gotos, primary_threw |-> e.primary = "throw"]
    IN  IF e.primary = "throw" THEN out(fail, <<CURVE_URL>>)
        ELSE IF e.curve1 THEN out(wait, <<CURVE_URL>>)
        ELSE IF e.home = "throw" THEN out(fail, <<CURVE_URL, BASE_URL>>)
        ELSE \* the tile click is inside try/except: pass
             IF e.curve2 THEN out(wait, <<CURVE_URL, BASE_URL>>)
        ELSE IF e.retry = "throw" THEN out(fail, <<CURVE_URL, BASE_URL, CURVE_URL>>)
        ELSE out(wait, <<CURVE_URL, BASE_URL, CURVE_URL>>)

GotoEnv ==
    [ primary : {"ok", "throw"}, curve1 : BOOLEAN, home : {"ok", "throw"},
      curve2 : BOOLEAN, retry : {"ok", "throw"}, ready : 0..3 ]

\* What a call of _goto_curve_page can do.
GotoOutcomes == {GotoCurvePage(e) : e \in GotoEnv}

Goto(i) ==
    /\ inv[i].pc = "goto"
    /\ \E res \in GotoOutcomes :
         LET r == [inv[i] EXCEPT !.last = res, !.navigated = TRUE]
         IN  inv' = [inv EXCEPT ![i] =
                        IF res.raised THEN Raise(r, "page.goto: Timeout")
                        ELSE [r EXCEPT !.pc = "select"]]
    /\ UNCHANGED <<clock, tmp_files, cache_csv, cache_json, storage_state_exists, parse,
                 api_key, req>>

\* _try_set_period_by_selects: both _set calls inside try/except -> False.
TrySetPeriodBySelects(e) ==
    IF e.set_inizio = "ok" /\ e.set_fine = "ok" THEN "true" ELSE "false"

\* _try_set_period_by_inputs: inputs.count() and the two fills are outside any
\* try; _fill_near catches and answers False.
TrySetPeriodByInputs(e) ==
    IF e.count = "throw" THEN "throw"
    ELSE IF e.count = "ge2"
         THEN IF e.fill0 = "ok" /\ e.fill1 = "ok" THEN "true" ELSE "throw"
    ELSE IF e.near_inizio = "ok" /\ e.near_fine = "ok" THEN "true" ELSE "false"

Strat(name, e) ==
    IF name = "_try_set_period_by_selects" THEN TrySetPeriodBySelects(e)
    ELSE TrySetPeriodByInputs(e)

\* The loop over strategies from the k-th on, `ran` being those already run:
\* return at the first that answers True, swallow what a strategy throws.
RECURSIVE StrategyLoopNoCatch(_, _, _)
StrategyLoopNoCatch(k, ran, e) ==
    IF k > Len(strategies) THEN [raised |-> FALSE, ran |-> ran]
    ELSE LET ok == Strat(strategies[k], e)
             now == Append(ran, [name |-> strategies[k], result |-> ok])
         IN  IF ok = "true" THEN [raised |-> FALSE, ran |-> now]
             ELSE IF ok = "throw" THEN [raised |-> TRUE, ran |-> now]
             ELSE StrategyLoopNoCatch(k + 1, now, e)

RECURSIVE StrategyLoop(_, _, _)
StrategyLoop(k, ran, e) ==
    IF k > Len(strategies) THEN [raised |-> FALSE, ran |-> ran]
    ELSE LET ok == Strat(strategies[k], e)
             now == Append(ran, [name |-> strategies[k], result |-> ok])
         IN  IF ok = "true" THEN [raised |-> FALSE, ran |-> now]
             ELSE StrategyLoop(k + 1, now, e)

\* _select_period: the "Modifica periodo" click is inside try/except: pass.
SelectPeriod(e) ==
    LET res == StrategyLoop(1, << >>, e)
    IN  [fn |-> "_select_period", raised |-> res.raised, ran |-> res.ran,
         button |-> e.button]

SelectEnv ==
    [ button : {"ok", "fail"}, set_inizio : {"ok", "raise"}, set_fine : {"ok", "raise"},
      count : {"ge2", "lt2", "throw"}, fill0 : {"ok", "throw"}, fill1 : {"ok", "throw"},
      near_inizio : {"ok", "fail"}, near_fine : {"ok", "fail"} ]

\* What a call of _select_period can do.
SelectOutcomes == {SelectPeriod(e) : e \in SelectEnv}

Select(i) ==
    /\ inv[i].pc = "select"
    /\ \E res \in SelectOutcomes :
         LET r == [inv[i] EXCEPT !.last = res]
         IN  inv' = [inv EXCEPT ![i] =
                        IF res.raised THEN Raise(r, "_select_period")
                        ELSE [r EXCEPT !.pc = "click", !.cand = 1]]
    /\ UNCHANGED <<clock, tmp_files, cache_csv, cache_json, storage_state_exists, parse,
                 api_key, req>>

\* Giving up at the first candidate that failed.
NextCandidateGiveUp(r) == Raise(r, "Pulsante download CSV non trovato")

\* _click_download_csv: `continue` after a candidate that failed; after the last
\* one, raise RuntimeError("Pulsante download CSV non trovato").
NextCandidate(r) ==
    IF r.cand < NumCandidates
    THEN [r EXCEPT !.cand = @ + 1, !.pc = "click"]
    ELSE Raise(r, "Pulsante download CSV non trovato")

\* What _click_download_csv has done so far: the candidates tried, whether the
\* download of one of them fired and was then lost (its save failed), and the
\* candidate whose file it returned.
ClickStep(r) ==
    IF r.last.fn = "_click_download_csv" THEN r.last
    ELSE [fn |-> "_click_download_csv", tried |-> << >>, event_lost |-> FALSE,
          returned |-> 0]

\* async with page.expect_download(...) as dl: await loc.first.click(...)
\* download = await dl.value; tmp = ...f"edis_{int(time.time())}.csv"
Click(i) ==
    /\ inv[i].pc = "click"
    /\ \E outcome \in {"click_error", "no_download", "download"} :
         LET c == inv[i].cand
             step == [ClickStep(inv[i]) EXCEPT !.tried = Append(@, Candidate(c))]
             r == [inv[i] EXCEPT !.last = step]
         IN  inv' = [inv EXCEPT ![i] =
                        IF outcome = "download"
                        THEN [r EXCEPT !.tmp = TmpName(clock), !.pc = "save_as"]
                        ELSE NextCandidate(r)]
    /\ UNCHANGED <<clock, tmp_files, cache_csv, cache_json, storage_state_exists, parse,
                 api_key, req>>

\* await download.save_as(tmp); return tmp.  A failed save is caught like a
\* timeout and the next candidate is tried.
SaveAs(i) ==
    /\ inv[i].pc = "save_as"
    /\ \/ /\ tmp_files' = [tmp_files EXCEPT ![inv[i].tmp] = Download(i)]
          /\ inv' = [inv EXCEPT ![i] =
                        [@ EXCEPT !.csv_path = inv[i].tmp, !.tmp = NoPath, !.cand = 0,
                                  !.pc = "read", !.last.returned = inv[i].cand]]
       \/ /\ inv' = [inv EXCEPT ![i] =
                        NextCandidate([@ EXCEPT !.tmp = NoPath, !.last.event_lost = TRUE])]
          /\ UNCHANGED tmp_files
    /\ UNCHANGED <<clock, cache_csv, cache_json, storage_state_exists, parse,
                 api_key, req>>

\* with open(csv_path, "rb") as f: data = f.read(); rows = _parse_csv_to_rows(data)
\* No suspension point lies between the read and the parse.
ReadCsv(i) ==
    /\ inv[i].pc = "read"
    /\ \E parsed \in {"rows", "raise"} :
         LET r == [inv[i] EXCEPT !.data = tmp_files[inv[i].csv_path],
                                 !.last = [fn |-> "_parse_csv_to_rows",
                                           raised |-> parsed = "raise"]]
         IN  inv' = [inv EXCEPT ![i] =
                        IF parsed = "raise" THEN Raise(r, "_csv.Error")
                        ELSE [r EXCEPT !.pc = "browser_close"]]
    /\ UNCHANGED <<clock, tmp_files, cache_csv, cache_json, storage_state_exists, parse,
                 api_key, req>>

\* await browser.close(), which closes the browser's contexts with it.
BrowserClose(i) ==
    /\ inv[i].pc = "browser_close"
    /\ inv' = [inv EXCEPT ![i] =
                 [@ EXCEPT !.browser = "closed", !.ctx = "closed", !.pc = "aexit"]]
    /\ UNCHANGED <<clock, tmp_files, cache_csv, cache_json, storage_state_exists, parse,
                 api_key, req>>

\* Leaving `async with async_playwright() as p` on the return path.
AsyncPlaywrightExit(i) ==
    /\ inv[i].pc = "aexit"
    /\ inv' = [inv EXCEPT ![i] = [@ EXCEPT !.pw = "stopped", !.pc = "return"]]
    /\ UNCHANGED <<clock, tmp_files, cache_csv, cache_json, storage_state_exists, parse,
                 api_key, req>>

\* refresh_and_download_csv returns the path of the file the flow downloaded.
RefreshAndDownloadCsvReturn(i) ==
    /\ inv[i].pc = "return"
    /\ inv' = [inv EXCEPT ![i] =
                 [log(@, "csv scaricato") EXCEPT !.pc = "store", !.data = NoFile]]
    /\ UNCHANGED <<clock, tmp_files, cache_csv, cache_json, storage_state_exists, parse,
                 api_key, req>>

\* anyio.fail_after(PW_TIMEOUT_MS / 1000.0): the flow is cancelled at the
\* suspension point it waits in, and the handler sees TimeoutError.
SuspensionPoints ==
    {"async_playwright", "launch", "new_context", "goto", "select", "click",
     "save_as", "browser_close", "aexit"}

Timeout(i) ==
    /\ inv[i].pc \in SuspensionPoints
    /\ inv' = [inv EXCEPT ![i] = Raise(@, "TimeoutError")]
    /\ UNCHANGED <<clock, tmp_files, cache_csv, cache_json, storage_state_exists, parse,
                 api_key, req>>

-----------------------------------------------------------------------------
(* The /refresh handler: the cache *)

\* _csv_to_json(csv_file), as json.dumps writes it
CsvToJson(content) == <<"json">> \o content

\* main.py 219-234, with no suspension point: the existence check, the copy into the
\* cache, _ensure_json_cache (which converts only when no JSON file exists) and the
\* answer.  pandas may raise on the file's content.
Store(i) ==
    /\ inv[i].pc = "store"
    /\ LET k == inv[i].payload.key
           downloaded == inv[i].csv_path
       IN  IF tmp_files[downloaded] = NoFile
           THEN /\ inv' = [inv EXCEPT ![i] = Raise(@, "Download CSV non trovato")]
                /\ UNCHANGED <<cache_csv, cache_json>>
           ELSE /\ cache_csv' = [cache_csv EXCEPT ![k] = tmp_files[downloaded]]
                /\ \E conv \in {"ok", "raise"} :
                     IF cache_json[k] # NoFile
                     THEN /\ UNCHANGED cache_json
                          /\ inv' = [inv EXCEPT ![i] =
                                [Done(@) EXCEPT !.stored = TRUE,
                                          !.response = [status_code |-> 200, detail |-> "ok",
                                                        has_log |-> TRUE,
                                                        log |-> inv[i].log_messages]]]
                     ELSE IF conv = "raise"
                     THEN /\ UNCHANGED cache_json
                          /\ inv' = [inv EXCEPT ![i] =
                                        Raise([@ EXCEPT !.stored = TRUE], "pandas")]
                     ELSE /\ cache_json' = [cache_json EXCEPT ![k] = CsvToJson(cache_csv'[k])]
                          /\ inv' = [inv EXCEPT ![i] =
                                [Done(@) EXCEPT !.stored = TRUE,
                                          !.response = [status_code |-> 200, detail |-> "ok",
                                                        has_log |-> TRUE,
                                                        log |-> inv[i].log_messages]]]
    /\ UNCHANGED <<clock, tmp_files, storage_state_exists, parse,
                 api_key, req>>

\* time.time() advances.
Tick ==
    /\ clock < MaxClock
    /\ clock' = clock + 1
    /\ UNCHANGED <<inv, tmp_files, cache_csv, cache_json, storage_state_exists, parse,
                 api_key, req>>

-----------------------------------------------------------------------------

Init ==
    /\ inv = [i \in Invs |-> Fresh]
    /\ clock = 0
    /\ tmp_files = [n \in TmpNames |-> NoFile]
    /\ cache_csv = [k \in Keys |-> NoFile]
    /\ cache_json = [k \in Keys |-> NoFile]
    /\ storage_state_exists \in BOOLEAN
    /\ parse = NoCall
    /\ api_key \in ApiKeys
    /\ req = NoRequest

Step(i) ==
    \/ Guard(i)
    \/ Refresh(i)
    \/ RefreshAndDownloadCsv(i)
    \/ AsyncPlaywright(i)
    \/ Launch(i)
    \/ NewContext(i)
    \/ Goto(i)
    \/ Select(i)
    \/ Click(i)
    \/ SaveAs(i)
    \/ ReadCsv(i)
    \/ BrowserClose(i)
    \/ AsyncPlaywrightExit(i)
    \/ RefreshAndDownloadCsvReturn(i)
    \/ Store(i)
    \/ Timeout(i)

Next == Tick \/ \E i \in Invs : Step(i)

Spec == Init /\ [][Next]_vars

\* The invocation followed to its end.  No step of an invocation waits for
\* another invocation: every guard of Step(i) reads inv[i].pc alone.
LiveInvs == {1}

NextLive == Tick \/ \E i \in LiveInvs : Step(i)

\* The event loop runs an invocation that can take a step: each await of the
\* flow returns, raises at its own timeout, or is cancelled by anyio.fail_after.
Fairness == \A i \in LiveInvs : WF_vars(Step(i))

SpecLive == Init /\ [][NextLive]_vars /\ Fairness

-----------------------------------------------------------------------------
(* The /data and /csv endpoints *)

Answer(endpoint, k, x, status_code, body) ==
    [endpoint |-> endpoint, key |-> k, x_api_key |-> x, status_code |-> status_code,
     body |-> body]

\* get_data: the guard; without a JSON file, 404 when there is no CSV either, else
\* _ensure_json_cache, whose conversion may raise (outside the try: 500); then the
\* items read from the JSON file.
GetData ==
    \E k \in Keys, x \in XApiKeys :
        /\ IF api_key_guard(x) = "401"
           THEN /\ req' = Answer("/data", k, x, 401, NoFile)
                /\ UNCHANGED cache_json
           ELSE IF cache_json[k] # NoFile
           THEN /\ req' = Answer("/data", k, x, 200, cache_json[k])
                /\ UNCHANGED cache_json
           ELSE IF cache_csv[k] = NoFile
           THEN /\ req' = Answer("/data", k, x, 404, NoFile)
                /\ UNCHANGED cache_json
           ELSE \E conv \in {"ok", "raise"} :
                  IF conv = "raise"
                  THEN /\ req' = Answer("/data", k, x, 500, NoFile)
                       /\ UNCHANGED cache_json
                  ELSE /\ cache_json' = [cache_json EXCEPT ![k] = CsvToJson(cache_csv[k])]
                       /\ req' = Answer("/data", k, x, 200, cache_json'[k])
        /\ UNCHANGED <<inv, clock, tmp_files, cache_csv, storage_state_exists, parse, api_key>>

\* get_csv: the guard; 404 without a CSV file, else the file.
GetCsv ==
    \E k \in Keys, x \in XApiKeys :
        /\ req' = IF api_key_guard(x) = "401" THEN Answer("/csv", k, x, 401, NoFile)
                  ELSE IF cache_csv[k] = NoFile THEN Answer("/csv", k, x, 404, NoFile)
                  ELSE Answer("/csv", k, x, 200, cache_csv[k])
        /\ UNCHANGED <<inv, clock, tmp_files, cache_csv, cache_json, storage_state_exists,
                       parse, api_key>>

\* What an earlier run of the service downloaded for a key and left in storage/.
Earlier == <<0>>

\* The invocations of /refresh that run next to the /data and /csv requests.
ApiInvs == {1}

\* storage/ is empty, or holds the CSV and the JSON of an earlier refresh.
InitApi ==
    /\ inv = [i \in Invs |-> Fresh]
    /\ clock = 0
    /\ tmp_files = [n \in TmpNames |-> NoFile]
    /\ \E old \in {NoFile, Earlier} :
          /\ cache_csv = [k \in Keys |-> old]
          /\ cache_json = [k \in Keys |-> IF old = NoFile THEN NoFile ELSE CsvToJson(old)]
    /\ storage_state_exists \in BOOLEAN
    /\ parse = NoCall
    /\ api_key \in ApiKeys
    /\ req = NoRequest

NextApi ==
    \/ Tick
    \/ \E i \in ApiInvs : Step(i)
    \/ GetData
    \/ GetCsv

SpecApi == InitApi /\ [][NextApi]_vars

-----------------------------------------------------------------------------
(* Text: a str is a sequence of one-character strings; "LF", "CR" and "TAB" stand
   for the control characters and "xFF" for a byte that is not valid UTF-8. *)

None == [some |-> FALSE]
Some(v) == [some |-> TRUE, v |-> v]

Whitespace == {" ", "TAB", "CR", "LF"}

DigitChars == << "0", "1", "2", "3", "4", "5", "6", "7", "8", "9" >>
DigitVal(c) == (CHOOSE d \in 1..Len(DigitChars) : DigitChars[d] = c) - 1

UpperCase == << "A", "B", "C", "D", "E", "F", "G", "H", "I", "J", "K", "L", "M",
                "N", "O", "P", "Q", "R", "S", "T", "U", "V", "W", "X", "Y", "Z" >>
LowerCase == << "a", "b", "c", "d", "e", "f", "g", "h", "i", "j", "k", "l", "m",
                "n", "o", "p", "q", "r", "s", "t", "u", "v", "w", "x", "y", "z" >>

\* str.lower()
Lower(s) ==
    [n \in 1..Len(s) |->
        IF \E u \in 1..Len(UpperCase) : UpperCase[u] = s[n]
        THEN LowerCase[CHOOSE u \in 1..Len(UpperCase) : UpperCase[u] = s[n]]
        ELSE s[n]]

\* str.strip()
RECURSIVE LStrip(_)
LStrip(s) == IF s # << >> /\ Head(s) \in Whitespace THEN LStrip(Tail(s)) ELSE s

RECURSIVE RStrip(_)
RStrip(s) ==
    IF s # << >> /\ s[Len(s)] \in Whitespace THEN RStrip(SubSeq(s, 1, Len(s) - 1)) ELSE s

Strip(s) == RStrip(LStrip(s))

\* sub in s
Contains(s, sub) ==
    \E k \in 0..(Len(s) - Len(sub)) : SubSeq(s, k + 1, k + Len(sub)) = sub

\* s.count(c)
Count(s, c) == Cardinality({n \in 1..Len(s) : s[n] = c})

\* s.split(c)
RECURSIVE Split(_, _)
Split(s, c) ==
    IF \A n \in 1..Len(s) : s[n] # c THEN <<s>>
    ELSE LET k == CHOOSE n \in 1..Len(s) : s[n] = c /\ \A m \in 1..(n - 1) : s[m] # c
         IN  <<SubSeq(s, 1, k - 1)>> \o Split(SubSeq(s, k + 1, Len(s)), c)

\* s.replace(a, b), b a string of at most one character
Replace(s, a, b) ==
    LET RECURSIVE go(_)
        go(t) == IF t = << >> THEN << >>
                 ELSE (IF Head(t) = a THEN b ELSE <<Head(t)>>) \o go(Tail(t))
    IN  go(s)

-----------------------------------------------------------------------------
(* _parse_csv_to_rows: decoding, delimiter, reader *)

\* csv_bytes.decode("utf-8", errors="ignore"): invalid bytes are dropped.
Decode(csv_bytes) ==
    LET valid(b) == b # "xFF" IN SelectSeq(csv_bytes, valid)

SNIFF_CHARS == 1024

\* csv.Sniffer().sniff(text[:1024], delimiters=";,") on a sample without quote
\* characters and with fewer than ten lines: a delimiter qualifies when every
\* non-empty line holds it the same, positive number of times; "," is preferred
\* to ";" when both qualify; with none the Sniffer raises csv.Error.
Sniff(text) ==
    LET sample == SubSeq(text, 1, IF Len(text) < SNIFF_CHARS THEN Len(text) ELSE SNIFF_CHARS)
        nonEmpty(l) == l # << >>
        data == SelectSeq(Split(sample, "LF"), nonEmpty)
        qualifies(c) ==
            /\ data # << >>
            /\ Count(data[1], c) > 0
            /\ \A n \in 1..Len(data) : Count(data[n], c) = Count(data[1], c)
    IN  IF qualifies(",") THEN "," ELSE IF qualifies(";") THEN ";" ELSE "csv.Error"

\* try: delim = sniff(...).delimiter  except Exception: delim = ";"
SniffDelimiter(text) ==
    LET d == Sniff(text) IN IF d = "csv.Error" THEN ";" ELSE d

\* Iterating io.StringIO(text): the lines, each with its "\n".
RECURSIVE StringIOLines(_)
StringIOLines(text) ==
    IF text = << >> THEN << >>
    ELSE IF \A n \in 1..Len(text) : text[n] # "LF" THEN <<text>>
    ELSE LET k == CHOOSE n \in 1..Len(text) : text[n] = "LF" /\ \A m \in 1..(n - 1) : text[m] # "LF"
         IN  <<SubSeq(text, 1, k)>> \o StringIOLines(SubSeq(text, k + 1, Len(text)))

\* The csv.reader state machine (excel dialect, no quote character in the text)
\* on one line, from character n on: the row, or csv.Error when a character
\* other than a line terminator follows a "\r".
RECURSIVE ReadLine(_, _, _, _, _, _)
ReadLine(line, n, state, fields, field, delim) ==
    IF n > Len(line)
    THEN [err |-> FALSE,
          row |-> IF state \in {"START_FIELD", "IN_FIELD"} THEN Append(fields, field)
                  ELSE fields]
    ELSE LET c == line[n]
         IN  IF state = "EAT_CRNL"
             THEN IF c \in {"LF", "CR"}
                  THEN ReadLine(line, n + 1, "EAT_CRNL", fields, << >>, delim)
                  ELSE [err |-> TRUE, row |-> fields]
             ELSE IF state = "START_RECORD" /\ c \in {"LF", "CR"}
             THEN ReadLine(line, n + 1, "EAT_CRNL", fields, << >>, delim)
             ELSE IF c \in {"LF", "CR"}
             THEN ReadLine(line, n + 1, "EAT_CRNL", Append(fields, field), << >>, delim)
             ELSE IF c = delim
             THEN ReadLine(line, n + 1, "START_FIELD", Append(fields, field), << >>, delim)
             ELSE ReadLine(line, n + 1, "IN_FIELD", fields, Append(field, c), delim)

\* list(csv.reader(io.StringIO(text), delimiter=delim))
RECURSIVE ReadLines(_, _)
ReadLines(lines, delim) ==
    IF lines = << >> THEN [err |-> FALSE, rows |-> << >>]
    ELSE LET first == ReadLine(Head(lines), 1, "START_RECORD", << >>, << >>, delim)
             rest == ReadLines(Tail(lines), delim)
         IN  IF first.err \/ rest.err THEN [err |-> TRUE, rows |-> << >>]
             ELSE [err |-> FALSE, rows |-> <<first.row>> \o rest.rows]

CsvReader(text, delim) == ReadLines(StringIOLines(text), delim)

-----------------------------------------------------------------------------
(* _parse_number *)

DigitSet == {DigitChars[d] : d \in 1..Len(DigitChars)}

\* The length of the run of characters of the set chars that starts at s[n].
RECURSIVE RunLength(_, _, _)
RunLength(s, n, chars) ==
    IF n <= Len(s) /\ s[n] \in chars THEN 1 + RunLength(s, n + 1, chars) ELSE 0

\* int(s) for a string of decimal digits
RECURSIVE DigitsValue(_)
DigitsValue(s) ==
    IF s = << >> THEN 0 ELSE 10 * DigitsValue(SubSeq(s, 1, Len(s) - 1)) + DigitVal(s[Len(s)])

\* A finite float as mant * 10^exp with mant not a multiple of ten (0 is 0 * 10^0).
RECURSIVE Finite(_, _)
Finite(mant, exp) ==
    IF mant = 0 THEN [kind |-> "finite", mant |-> 0, exp |-> 0]
    ELSE IF mant % 10 = 0 THEN Finite(mant \div 10, exp + 1)
    ELSE [kind |-> "finite", mant |-> mant, exp |-> exp]

\* The decimal digits of a natural number, without leading zeros.
RECURSIVE Decimal(_)
Decimal(v) ==
    IF v < 10 THEN <<DigitChars[v + 1]>> ELSE Decimal(v \div 10) \o <<DigitChars[(v % 10) + 1]>>

\* The largest decimal exponent of a finite double (sys.float_info.max_10_exp).
DBL_MAX_10_EXP == 308

\* float(s) takes "_" between two digits and ignores it there; a "_" anywhere
\* else stays in the text, where it makes the text malformed.
RECURSIVE Ungrouped(_, _)
Ungrouped(t, n) ==
    IF n > Len(t) THEN << >>
    ELSE IF /\ t[n] = "_" /\ n > 1 /\ n < Len(t)
            /\ t[n - 1] \in DigitSet /\ t[n + 1] \in DigitSet
    THEN Ungrouped(t, n + 1)
    ELSE <<t[n]>> \o Ungrouped(t, n + 1)

\* The text of a float, stripped and ungrouped: an optional sign, then "inf",
\* "infinity" or "nan" in any case, or decimal digits with an optional point and an
\* optional exponent.  None stands for ValueError.
FloatText(t) ==
    LET signed == t # << >> /\ t[1] \in {"+", "-"}
        neg == signed /\ t[1] = "-"
        u == IF signed THEN Tail(t) ELSE t
        word == Lower(u)
        ni == RunLength(u, 1, DigitSet)                  \* integer digits
        point == ni < Len(u) /\ u[ni + 1] = "."
        nf == IF point THEN RunLength(u, ni + 2, DigitSet) ELSE 0
        m == ni + (IF point THEN 1 + nf ELSE 0)         \* end of the mantissa
        hasExp == m < Len(u) /\ u[m + 1] \in {"e", "E"}
        esigned == hasExp /\ m + 1 < Len(u) /\ u[m + 2] \in {"+", "-"}
        e0 == m + (IF esigned THEN 3 ELSE 2)            \* first exponent digit
        ne == IF hasExp THEN RunLength(u, e0, DigitSet) ELSE 0
        stop == IF hasExp THEN e0 + ne - 1 ELSE m
        digits == SubSeq(u, 1, ni) \o (IF point THEN SubSeq(u, ni + 2, ni + 1 + nf) ELSE << >>)
        expo == IF hasExp THEN DigitsValue(SubSeq(u, e0, e0 + ne - 1)) ELSE 0
        sexpo == IF esigned /\ u[m + 2] = "-" THEN 0 - expo ELSE expo
        mant == DigitsValue(digits)
    IN  IF word \in { <<"i","n","f">>, <<"i","n","f","i","n","i","t","y">> }
        THEN Some([kind |-> IF neg THEN "-inf" ELSE "inf"])
        ELSE IF word = <<"n","a","n">> THEN Some([kind |-> "nan"])
        ELSE IF ni + nf = 0 \/ (hasExp /\ ne = 0) \/ stop # Len(u) THEN None
        ELSE IF mant # 0 /\ Len(Decimal(mant)) + sexpo - nf > DBL_MAX_10_EXP + 1
        THEN Some([kind |-> IF neg THEN "-inf" ELSE "inf"])         \* overflow
        ELSE Some(Finite(IF neg THEN 0 - mant ELSE mant, sexpo - nf))

\* float(s): surrounding whitespace ignored, digit grouping removed.
Float(s) ==
    LET stripped == Strip(s)
    IN  IF \E n \in 1..Len(stripped) : stripped[n] = "_"
        THEN FloatText(Ungrouped(stripped, 1))
        ELSE FloatText(stripped)

\* _parse_number: "1.234,56" -> "1234.56" -> float
ParseNumber(s) ==
    LET t == Strip(s)
    IN  IF t = << >> THEN None
        ELSE Float(Replace(Replace(t, ".", << >>), ",", <<".">>))

-----------------------------------------------------------------------------
(* _normalize_ts *)

\* The (input format, output has the time) pairs of `candidates`, in order; " " in
\* a format matches one or more whitespace characters.
candidates ==
    << [fmt_in |-> <<"%d", "/", "%m", "/", "%Y", " ", "%H", ":", "%M">>, iso |-> FALSE],
       [fmt_in |-> <<"%d", "/", "%m", "/", "%Y", " ", "%H", ".", "%M">>, iso |-> FALSE],
       [fmt_in |-> <<"%Y", "-", "%m", "-", "%d", " ", "%H", ":", "%M">>, iso |-> TRUE],
       [fmt_in |-> <<"%Y", "-", "%m", "-", "%d", "T", "%H", ":", "%M">>, iso |-> TRUE],
       [fmt_in |-> <<"%d", "/", "%m", "/", "%Y">>, iso |-> FALSE],
       [fmt_in |-> <<"%Y", "-", "%m", "-", "%d">>, iso |-> TRUE] >>

Directives == {"%d", "%m", "%Y", "%H", "%M"}

\* What a directive accepts: its digit count and its value.
DirectiveAccepts(d, len, val) ==
    CASE d = "%d" -> len \in {1, 2} /\ val \in 1..31
      [] d = "%m" -> len \in {1, 2} /\ val \in 1..12
      [] d = "%Y" -> len = 4
      [] d = "%H" -> len \in {1, 2} /\ val \in 0..23
      [] d = "%M" -> len \in {1, 2} /\ val \in 0..59

\* The regular expression strptime builds from a format, matched from s[n] and
\* fmt[k] on: the fields, or None.  Every directive here is followed by a
\* non-digit or by the end, so it takes the whole run of digits; %d also takes
\* a space followed by one digit from 1 to 9.
RECURSIVE StrptimeMatch(_, _, _, _, _)
StrptimeMatch(s, n, fmt, k, got) ==
    IF k > Len(fmt) THEN (IF n > Len(s) THEN Some(got) ELSE None)
    ELSE IF fmt[k] = " "
    THEN LET run == RunLength(s, n, Whitespace)
         IN  IF run = 0 THEN None ELSE StrptimeMatch(s, n + run, fmt, k + 1, got)
    ELSE IF fmt[k] \in Directives
    THEN LET pad == IF fmt[k] = "%d" /\ n < Len(s) /\ s[n] = " " THEN 1 ELSE 0
             run == RunLength(s, n + pad, DigitSet)
             val == DigitsValue(SubSeq(s, n + pad, n + pad + run - 1))
         IN  IF pad = 1
             THEN IF run = 1 /\ val >= 1
                  THEN StrptimeMatch(s, n + 2, fmt, k + 1, [got EXCEPT ![fmt[k]] = val])
                  ELSE None
             ELSE IF run > 0 /\ run <= 4 /\ DirectiveAccepts(fmt[k], run, val)
             THEN StrptimeMatch(s, n + run, fmt, k + 1, [got EXCEPT ![fmt[k]] = val])
             ELSE None
    ELSE IF n <= Len(s) /\ Lower(<<s[n]>>) = Lower(<<fmt[k]>>)
         THEN StrptimeMatch(s, n + 1, fmt, k + 1, got)
         ELSE None

IsLeap(y) == (y % 4 = 0 /\ y % 100 # 0) \/ y % 400 = 0

DaysInMonth(y, m) ==
    IF m = 2 THEN (IF IsLeap(y) THEN 29 ELSE 28)
    ELSE IF m \in {4, 6, 9, 11} THEN 30 ELSE 31

\* datetime.strptime(s, fmt): None stands for ValueError.
Strptime(s, fmt) ==
    LET zero == [d \in Directives |-> IF d \in {"%d", "%m"} THEN 1 ELSE 0]
        got == StrptimeMatch(s, 1, fmt, 1, zero)
    IN  IF ~got.some THEN None
        ELSE IF got.v["%Y"] < 1 \/ got.v["%d"] > DaysInMonth(got.v["%Y"], got.v["%m"])
        THEN None
        ELSE got

\* The decimal digits of v, zero-padded to width w
RECURSIVE Padded(_, _)
Padded(v, w) ==
    IF w = 0 THEN << >> ELSE Padded(v \div 10, w - 1) \o <<DigitChars[(v % 10) + 1]>>

\* dt.strftime("%Y-%m-%dT%H:%M:00"); the C library's %Y does not pad a year below
\* 1000 (glibc), the two-digit fields are zero padded.
Strftime(dt) ==
    Decimal(dt["%Y"]) \o <<"-">> \o Padded(dt["%m"], 2) \o <<"-">> \o Padded(dt["%d"], 2)
    \o <<"T">> \o Padded(dt["%H"], 2) \o <<":">> \o Padded(dt["%M"], 2) \o <<":", "0", "0">>

\* The first candidate format, from the k-th on, that parses s.
RECURSIVE FirstFormat(_, _)
FirstFormat(s, k) ==
    IF k > Len(candidates) THEN None
    ELSE LET dt == Strptime(s, candidates[k].fmt_in)
         IN  IF dt.some THEN Some(Strftime(dt.v)) ELSE FirstFormat(s, k + 1)

\* _normalize_ts
NormalizeTs(raw) ==
    LET s == Strip(raw)
        first == FirstFormat(s, 1)
    IN  IF s = << >> THEN None
        ELSE IF first.some THEN first
        ELSE FirstFormat(Replace(s, ".", <<":">>), 1)

-----------------------------------------------------------------------------
(* _parse_csv_to_rows: header, columns, rows *)

\* any(cell.strip() for cell in r)
AnyCell(r) == \E n \in 1..Len(r) : Strip(r[n]) # << >>

\* [c.strip() for c in r]
Stripped(r) == [n \in 1..Len(r) |-> Strip(r[n])]

\* The first row with a non-blank cell ("prima riga vera"), or None.
HeaderRow(rows) ==
    IF \E n \in 1..Len(rows) : AnyCell(rows[n])
    THEN Some(CHOOSE n \in 1..Len(rows) :
                 AnyCell(rows[n]) /\ \A m \in 1..(n - 1) : ~AnyCell(rows[m]))
    ELSE None

\* next((i for i, h in enumerate(lower) if w1 in h or w2 in h ...), None), with
\* columns counted from 1.
IndexOf(lower, words) ==
    LET hit(n) == \E w \in words : Contains(lower[n], w)
    IN  IF \E n \in 1..Len(lower) : hit(n)
        THEN Some(CHOOSE n \in 1..Len(lower) : hit(n) /\ \A m \in 1..(n - 1) : ~hit(m))
        ELSE None

\* "data" in h or "date" in h
W_DATE ==
    { <<"d", "a", "t", "a">>,
      <<"d", "a", "t", "e">> }

\* "ora" in h or "time" in h
W_TIME ==
    { <<"o", "r", "a">>,
      <<"t", "i", "m", "e">> }

\* "timestamp" in h or "data-ora" in h or "datetime" in h
W_TS ==
    { <<"t", "i", "m", "e", "s", "t", "a", "m", "p">>,
      <<"d", "a", "t", "a", "-", "o", "r", "a">>,
      <<"d", "a", "t", "e", "t", "i", "m", "e">> }

\* "kwh" in h or "energia" in h or "valore" in h
W_VAL ==
    { <<"k", "w", "h">>,
      <<"e", "n", "e", "r", "g", "i", "a">>,
      <<"v", "a", "l", "o", "r", "e">> }

\* "qualit" in h or "quality" in h
W_Q ==
    { <<"q", "u", "a", "l", "i", "t">>,
      <<"q", "u", "a", "l", "i", "t", "y">> }

\* idx_date, idx_time, idx_ts, idx_val, idx_q
Indices(header) ==
    LET lower == [n \in 1..Len(header) |-> Lower(header[n])]
    IN  [date |-> IndexOf(lower, W_DATE), time |-> IndexOf(lower, W_TIME),
         ts |-> IndexOf(lower, W_TS), val |-> IndexOf(lower, W_VAL),
         q |-> IndexOf(lower, W_Q)]

MIDNIGHT == <<"0", "0", ":", "0", "0">>

\* ts of a row: the timestamp column when the row has it non-blank, else the
\* date column joined with the time column (or "00:00").
TsOf(r, idx) ==
    IF idx.ts.some /\ idx.ts.v <= Len(r) /\ Strip(r[idx.ts.v]) # << >>
    THEN NormalizeTs(Strip(r[idx.ts.v]))
    ELSE IF idx.date.some
    THEN LET d_raw == IF idx.date.v <= Len(r) THEN Strip(r[idx.date.v]) ELSE << >>
             t_raw == IF idx.time.some /\ idx.time.v <= Len(r)
                      THEN Strip(r[idx.time.v]) ELSE MIDNIGHT
         IN  NormalizeTs(d_raw \o <<" ">> \o t_raw)
    ELSE None

\* val of a row
ValOf(r, idx) ==
    IF idx.val.some /\ idx.val.v <= Len(r) THEN ParseNumber(r[idx.val.v]) ELSE None

\* qual of a row
QualOf(r, idx) ==
    IF idx.q.some /\ idx.q.v <= Len(r) THEN Some(Strip(r[idx.q.v])) ELSE None

\* Keeping a row that has a timestamp or a value.
KeepEither(ts, val) == ts.some \/ val.some

\* if ts is not None and val is not None
Keep(ts, val) == ts.some /\ val.some

\* A call of _parse_csv_to_rows(csv_bytes) about to run.
Call(csv_bytes) ==
    [pc |-> "decode", csv_bytes |-> csv_bytes, text |-> << >>, delim |-> ";",
     rows |-> << >>, header |-> << >>, idx |-> Indices(<< >>), k |-> 0,
     started |-> FALSE, data_rows |-> << >>]

\* return <list>
Return(c, list) == [c EXCEPT !.pc = "returned", !.data_rows = list]

\* text = csv_bytes.decode(...); delim = the sniffed delimiter or ";"
ParseDecode ==
    /\ parse.pc = "decode"
    /\ LET text == Decode(parse.csv_bytes)
       IN  parse' = [parse EXCEPT !.text = text, !.delim = SniffDelimiter(text),
                                  !.pc = "reader"]
    /\ UNCHANGED <<inv, clock, tmp_files, cache_csv, cache_json, storage_state_exists,
                 api_key, req>>

\* rows = list(reader), outside any try; if not rows: return []
ParseReader ==
    /\ parse.pc = "reader"
    /\ LET read == CsvReader(parse.text, parse.delim)
       IN  parse' = IF read.err THEN [parse EXCEPT !.pc = "raised"]
                    ELSE IF read.rows = << >> THEN Return(parse, << >>)
                    ELSE [parse EXCEPT !.rows = read.rows, !.pc = "header"]
    /\ UNCHANGED <<inv, clock, tmp_files, cache_csv, cache_json, storage_state_exists,
                 api_key, req>>

\* The header and the column indices; if header is None: return []
ParseHeader ==
    /\ parse.pc = "header"
    /\ LET h == HeaderRow(parse.rows)
       IN  parse' = IF ~h.some THEN Return(parse, << >>)
                    ELSE LET header == Stripped(parse.rows[h.v])
                         IN  [parse EXCEPT !.header = header, !.idx = Indices(header),
                                           !.started = FALSE, !.k = 1, !.pc = "rows"]
    /\ UNCHANGED <<inv, clock, tmp_files, cache_csv, cache_json, storage_state_exists,
                 api_key, req>>

\* One turn of `for r in rows`.  A record carries src, the place of its row in
\* rows, which the code does not keep.
ParseRow ==
    /\ parse.pc = "rows"
    /\ parse.k <= Len(parse.rows)
    /\ LET r == parse.rows[parse.k]
           ts == TsOf(r, parse.idx)
           val == ValOf(r, parse.idx)
           qual == QualOf(r, parse.idx)
           on == [parse EXCEPT !.k = @ + 1]
       IN  parse' =
             IF ~parse.started
             THEN [on EXCEPT !.started = (Stripped(r) = parse.header)]
             ELSE IF ~AnyCell(r) THEN on
             ELSE IF Keep(ts, val)
             THEN [on EXCEPT !.data_rows =
                      Append(@, [ts |-> ts, kWh |-> val, quality |-> qual, src |-> parse.k])]
             ELSE on
    /\ UNCHANGED <<inv, clock, tmp_files, cache_csv, cache_json, storage_state_exists,
                 api_key, req>>

\* return data_rows
ParseReturn ==
    /\ parse.pc = "rows"
    /\ parse.k > Len(parse.rows)
    /\ parse' = Return(parse, parse.data_rows)
    /\ UNCHANGED <<inv, clock, tmp_files, cache_csv, cache_json, storage_state_exists,
                 api_key, req>>

-----------------------------------------------------------------------------
(* The byte strings parsed *)

MaxRawLen == 3              \* longest raw byte string
MaxRows == 2                \* most rows under a header

\* Arbitrary bytes: a letter, the delimiter, the line terminators, a byte that is
\* not UTF-8.
RawAlphabet == {"a", ";", "LF", "CR", "xFF"}
RawInputs == UNION {[1..n -> RawAlphabet] : n \in 0..MaxRawLen}

\* Timestamp;kWh;Quality
H_TS ==
    << "T", "i", "m", "e", "s", "t", "a", "m", "p", ";", "k", "W", "h", ";", "Q",
       "u", "a", "l", "i", "t", "y" >>
\* Data;Ora;Valore
H_DATE ==
    << "D", "a", "t", "a", ";", "O", "r", "a", ";", "V", "a", "l", "o", "r", "e" >>
\* x;y;z
H_UNKNOWN ==
    << "x", ";", "y", ";", "z" >>
Headers == {H_TS, H_DATE, H_UNKNOWN}

\* 24/08/2025 10:15;1,5;ok
R_GOOD ==
    << "2", "4", "/", "0", "8", "/", "2", "0", "2", "5", " ", "1", "0", ":", "1",
       "5", ";", "1", ",", "5", ";", "o", "k" >>
\* 2025-08-24T10:30;1.234,56;
R_ISO ==
    << "2", "0", "2", "5", "-", "0", "8", "-", "2", "4", "T", "1", "0", ":", "3",
       "0", ";", "1", ".", "2", "3", "4", ",", "5", "6", ";" >>
\* 24/08/2025;10.45;3
R_DATE ==
    << "2", "4", "/", "0", "8", "/", "2", "0", "2", "5", ";", "1", "0", ".", "4",
       "5", ";", "3" >>
\* 31/02/2025 10:15;2,0;ok
R_BAD_TS ==
    << "3", "1", "/", "0", "2", "/", "2", "0", "2", "5", " ", "1", "0", ":", "1",
       "5", ";", "2", ",", "0", ";", "o", "k" >>
\* 24/08/2025 11:00;n.d.;ok
R_BAD_VAL ==
    << "2", "4", "/", "0", "8", "/", "2", "0", "2", "5", " ", "1", "1", ":", "0",
       "0", ";", "n", ".", "d", ".", ";", "o", "k" >>
\* 24/08/2025 11:15
R_SHORT ==
    << "2", "4", "/", "0", "8", "/", "2", "0", "2", "5", " ", "1", "1", ":", "1",
       "5" >>
\* ; ;
R_BLANK ==
    << ";", " ", ";" >>
Lines == {R_GOOD, R_ISO, R_DATE, R_BAD_TS, R_BAD_VAL, R_SHORT, R_BLANK}

Terminators == {<<"LF">>, <<"CR", "LF">>}

RECURSIVE Join(_, _)
Join(lines, nl) ==
    IF lines = << >> THEN << >> ELSE Head(lines) \o nl \o Join(Tail(lines), nl)

\* A CSV export: perhaps a blank line, a header, up to MaxRows lines, each a
\* data line or the header again.
TablesUnder(h) ==
    { Join(lead \o <<h>> \o body, nl) :
        lead \in {<< >>, <<R_BLANK>>},
        body \in UNION {[1..n -> Lines \cup {h}] : n \in 0..MaxRows}, nl \in Terminators }

Tables == UNION {TablesUnder(h) : h \in Headers}

Inputs == RawInputs \cup Tables

InitParse ==
    /\ inv = [i \in Invs |-> Fresh]
    /\ clock = 0
    /\ tmp_files = [n \in TmpNames |-> NoFile]
    /\ cache_csv = [k \in Keys |-> NoFile]
    /\ cache_json = [k \in Keys |-> NoFile]
    /\ storage_state_exists = FALSE
    /\ parse \in {Call(b) : b \in Inputs}
    /\ api_key = ""
    /\ req = NoRequest

NextParse ==
    \/ ParseDecode
    \/ ParseReader
    \/ ParseHeader
    \/ ParseRow
    \/ ParseReturn

SpecParse == InitParse /\ [][NextParse]_vars

-----------------------------------------------------------------------------
(* Properties of the /refresh flow *)

\* C1: a /refresh that passed the API-key guard, without a saved session
\* (use_storage=false), whose username or
\* password is missing or empty ends with HTTP 400 before the browser flow starts:
\* Playwright is not started, no browser is launched, no navigation is issued and
\* the handler writes no CSV/JSON cache file.
C1_InputErrorBeforeFlow ==
    \A i \in Invs :
        ( /\ inv[i].pc \notin {"idle", "refresh"}
          /\ inv[i].response.status_code # 401
          /\ ~inv[i].payload.use_storage
          /\ (inv[i].payload.username = "" \/ inv[i].payload.password = "") )
        => /\ inv[i].pc = "done"
           /\ inv[i].response.status_code = 400
           /\ inv[i].pw = "none" /\ inv[i].browser = "none" /\ inv[i].ctx = "none"
           /\ ~inv[i].navigated
           /\ ~inv[i].stored

C1_Witness ==
    \E i \in Invs :
        /\ inv[i].pc = "done"
        /\ ~inv[i].payload.use_storage
        /\ inv[i].payload.username = "user" /\ inv[i].payload.password = ""
        /\ inv[i].response.status_code = 400

C3_BrowserClosedOnEveryExit ==
    \A i \in Invs :
        inv[i].pc = "done"
        => /\ inv[i].browser \in {"none", "closed"}
           /\ inv[i].ctx \in {"none", "closed"}

\* C4: every failure answer of /refresh carries the diagnostic log lines
\* accumulated up to the failure, in the order they were appended.
C4_FailureReturnsLog ==
    \A i \in Invs :
        (inv[i].pc = "done" /\ inv[i].response.status_code # 200)
        => /\ inv[i].response.has_log
           /\ inv[i].response.log = inv[i].log_messages

\* C5 (as claimed): _click_download_csv returns the file of the first candidate
\* that produced a download event, and gives up with "download control not found"
\* only after every candidate was tried and none produced a download.
C5_ReturnsFirstDownloadEvent ==
    \A i \in Invs :
        inv[i].last.fn = "_click_download_csv"
        => /\ inv[i].last.returned > 0 => ~inv[i].last.event_lost
           /\ (inv[i].pc = "done"
                 /\ inv[i].response.detail = "Pulsante download CSV non trovato")
              => /\ Len(inv[i].last.tried) = NumCandidates
                 /\ ~inv[i].last.event_lost

\* C5 (amended): _click_download_csv tries the candidates in their fixed priority
\* order (labels in list order, for each label the button locator before the text
\* locator); a candidate whose click, download wait or save fails is skipped and
\* the next one is tried; it returns the path saved for the first candidate whose
\* download fired and was saved, and it gives up with "download control not found"
\* only after every candidate was tried and none was saved.
C5_ReturnsFirstSavedDownload ==
    \A i \in Invs :
        inv[i].last.fn = "_click_download_csv"
        => LET step == inv[i].last
               n == Len(step.tried)
           IN  /\ n \in 1..NumCandidates
               /\ \A c \in 1..n :
                    /\ step.tried[c].label = labels[(c + 1) \div 2]
                    /\ step.tried[c].loc = IF c % 2 = 1 THEN "get_by_role_button"
                                                         ELSE "get_by_text"
               /\ step.returned > 0
                    => /\ step.returned = n
                       /\ inv[i].pc = "read"
                       /\ inv[i].csv_path \in TmpNames
                       /\ tmp_files[inv[i].csv_path] # NoFile
               /\ (inv[i].pc = "done"
                     /\ inv[i].response.detail = "Pulsante download CSV non trovato")
                  => n = NumCandidates /\ step.returned = 0
               /\ (inv[i].pc = "done" /\ n < NumCandidates)
                  => inv[i].response.detail = "TimeoutError"

C5_Witness ==
    \E i \in Invs :
        /\ inv[i].last.fn = "_click_download_csv"
        /\ inv[i].last.event_lost
        /\ inv[i].last.returned = 4
        /\ inv[i].pc = "read"

\* C6: two concurrent invocations share no mutable state but the session snapshot:
\* the file an invocation saved still holds its own download whenever it reads or
\* copies it, and the bytes it read are those of its own download.
C6_OwnDownload ==
    \A i \in Invs :
        /\ inv[i].csv_path # NoPath => tmp_files[inv[i].csv_path] = Download(i)
        /\ inv[i].data # NoFile => inv[i].data = Download(i)

\* C9: when the primary navigation to the load-curve URL throws, at least one
\* further navigation is attempted before _goto_curve_page gives up.
C9_FallbackAfterPrimaryThrows ==
    \A i \in Invs :
        (inv[i].last.fn = "_goto_curve_page" /\ inv[i].last.primary_threw)
        => Len(inv[i].last.gotos) >= 2

\* C10: _select_period never raises, whatever its strategies do: it runs them in
\* order, stops at the first that reports success, swallows what they throw, and
\* when none succeeds the run still proceeds to the download step (only the
\* handler's overall timeout can end the invocation there).
C10_SelectPeriodIsSoft ==
    \A i \in Invs :
        inv[i].last.fn = "_select_period"
        => LET ran == inv[i].last.ran
           IN  /\ ~inv[i].last.raised
               /\ \/ inv[i].pc = "click" /\ inv[i].cand = 1
                  \/ inv[i].pc = "done" /\ inv[i].response.detail = "TimeoutError"
               /\ Len(ran) \in 1..Len(strategies)
               /\ \A n \in 1..Len(ran) : ran[n].name = strategies[n]
               /\ \A n \in 1..(Len(ran) - 1) : ran[n].result # "true"
               /\ ran[Len(ran)].result # "true" => Len(ran) = Len(strategies)

C10_Witness ==
    \E i \in Invs :
        /\ inv[i].last.fn = "_select_period"
        /\ inv[i].last.button = "fail"
        /\ Len(inv[i].last.ran) = 2
        /\ inv[i].last.ran[1].result = "false"
        /\ inv[i].last.ran[2].result = "throw"
        /\ inv[i].pc = "click"

-----------------------------------------------------------------------------
(* Properties of _parse_csv_to_rows *)

\* C7: _parse_csv_to_rows never raises, whatever bytes it is given: every call
\* returns a list, possibly empty.
C7_NeverRaises == parse.pc # "raised"

\* The rows the loop has gone through.
Processed ==
    IF parse.pc = "rows" THEN 1..(parse.k - 1)
    ELSE IF parse.pc = "returned" THEN 1..Len(parse.rows)
    ELSE {}

\* C8: a row after the header yields a record if and only if it gives both a
\* normalized timestamp and a number; every other row is dropped and the parse
\* goes on; every record has a ts and a kWh, which are those of its row; the
\* header row, or a row repeating it, is never a record; the records are in the
\* order of their rows.
C8_RecordIffTimestampAndValue ==
    LET recs == parse.data_rows
        h == HeaderRow(parse.rows)
    IN  /\ parse.pc \in {"decode", "reader", "header"} => recs = << >>
        /\ ~h.some => recs = << >>
        /\ (parse.pc \in {"rows", "returned"} /\ h.some) =>
              /\ \A n \in 1..Len(recs) :
                    LET r == parse.rows[recs[n].src]
                    IN  /\ recs[n].ts.some /\ recs[n].kWh.some
                        /\ recs[n].src > h.v
                        /\ Stripped(r) # parse.header
                        /\ recs[n].ts = TsOf(r, parse.idx)
                        /\ recs[n].kWh = ValOf(r, parse.idx)
              /\ \A n \in 1..(Len(recs) - 1) : recs[n].src < recs[n + 1].src
              /\ \A j \in Processed :
                    j > h.v =>
                      ( (\E n \in 1..Len(recs) : recs[n].src = j)
                        <=> ( TsOf(parse.rows[j], parse.idx).some
                              /\ ValOf(parse.rows[j], parse.idx).some ) )
              /\ parse.pc = "returned" => Processed = 1..Len(parse.rows)

\* A parse that returned after a blank line, the header, a row dropped for its
\* date (31/02/2025, with the number 2.0) and a row kept: 24/08/2025 10:15
\* with 1.5.
C8_Witness ==
    /\ parse.pc = "returned"
    /\ Len(parse.rows) = 4
    /\ HeaderRow(parse.rows) = Some(2)
    /\ TsOf(parse.rows[3], parse.idx) = None
    /\ ValOf(parse.rows[3], parse.idx) = Some([kind |-> "finite", mant |-> 2, exp |-> 0])
    /\ Len(parse.data_rows) = 1
    /\ parse.data_rows[1].src = 4
    /\ parse.data_rows[1].ts =
         Some(<<"2", "0", "2", "5", "-", "0", "8", "-", "2", "4", "T",
                "1", "0", ":", "1", "5", ":", "0", "0">>)
    /\ parse.data_rows[1].kWh = Some([kind |-> "finite", mant |-> 15, exp |-> -1])

-----------------------------------------------------------------------------
(* Termination of the /refresh flow *)

\* The statements of the handler and of the flow in program order.
Stages ==
    << "idle", "refresh", "dispatch", "async_playwright", "launch", "new_context", "goto",
       "select", "click", "read", "browser_close", "aexit", "return", "store", "done" >>

StageOf(pc) == CHOOSE n \in 1..Len(Stages) : Stages[n] = (IF pc = "save_as" THEN "click" ELSE pc)

\* How far an invocation is: its statement and, in the loop over the download
\* candidates, the candidate and whether its download is being saved.
Progress(r) ==
    StageOf(r.pc) * (2 * NumCandidates + 2)
    + (IF r.pc \in {"click", "save_as"}
       THEN 2 * r.cand + (IF r.pc = "save_as" THEN 1 ELSE 0) ELSE 0)

\* C11: every invocation that has begun eventually ends, with a success or a
\* failure answer; every step moves the invocation forward (the readiness wait polls
\* at most three times, the download loop goes through the candidates once), no
\* step takes it back to an earlier statement, and an exception ends it at once.
C11_EveryInvocationEnds ==
    /\ [][\A i \in Invs :
            /\ inv'[i] # inv[i] => Progress(inv'[i]) > Progress(inv[i])
            /\ (inv'[i].last.fn = "_goto_curve_page" => inv'[i].last.polls <= 3)
            /\ (inv'[i].response.status_code \notin {0, 200} => inv'[i].pc = "done")]_vars
    /\ \A i \in Invs :
          (inv[i].pc # "idle")
             ~> (inv[i].pc = "done"
                   /\ inv[i].response.status_code \in {200, 400, 401, 500})

\* An invocation ended by the overall timeout while waiting for a download at the
\* third candidate, its browser still launched.
C11_Witness ==
    \E i \in Invs :
        /\ inv[i].pc = "done" /\ inv[i].response.detail = "TimeoutError"
        /\ inv[i].response.status_code = 500
        /\ inv[i].last.fn = "_click_download_csv" /\ Len(inv[i].last.tried) = 3
        /\ inv[i].browser = "launched"

-----------------------------------------------------------------------------
(* _parse_number on its own *)

MaxNumLen == 3              \* longest string of NumberAlphabet parsed

NumberAlphabet == {"1", "0", ".", ",", "-", " ", "n", "a"}

N_EXAMPLE == <<"1", ".", "2", "3", "4", ",", "5", "6">>

\* The strings parsed: all short ones, the example, and a few longer ones.
NumberInputs ==
    UNION {[1..n -> NumberAlphabet] : n \in 0..MaxNumLen}
    \cup { N_EXAMPLE,
           <<"1", "2", ",", "5", "0">>, <<"-", "0", ",", "7", "5">>,
           <<" ", "3", "5", " ">>, <<"1", "_", "0">>, <<"1", "e", "3">>,
           <<"k", "W", "h">>, <<"n", ".", "d", ".">>, <<"i", "n", "f">>,
           <<"I", "n", "f", "i", "n", "i", "t", "y">>, <<"N", "a", "N">> }

\* val = _parse_number(s)
ParseNumberCall ==
    /\ parse.pc = "number"
    /\ parse' = [pc |-> "number_returned", s |-> parse.s, val |-> ParseNumber(parse.s)]
    /\ UNCHANGED <<inv, clock, tmp_files, cache_csv, cache_json, storage_state_exists,
                 api_key, req>>

InitNumber ==
    /\ inv = [i \in Invs |-> Fresh]
    /\ clock = 0
    /\ tmp_files = [n \in TmpNames |-> NoFile]
    /\ cache_csv = [k \in Keys |-> NoFile]
    /\ cache_json = [k \in Keys |-> NoFile]
    /\ storage_state_exists = FALSE
    /\ parse \in {[pc |-> "number", s |-> x] : x \in NumberInputs}
    /\ api_key = ""
    /\ req = NoRequest

NextNumber == ParseNumberCall

SpecNumber == InitNumber /\ [][NextNumber]_vars

\* C12: _parse_number gives 1234.56 for "1.234,56", no value for an empty or
\* blank string, and no value for a string that is not a number (here: one with
\* no digit in it); it never raises.
C12_ParseNumber ==
    parse.pc = "number_returned" =>
        /\ parse.s = N_EXAMPLE
              => parse.val = Some([kind |-> "finite", mant |-> 123456, exp |-> -2])
        /\ Strip(parse.s) = << >> => parse.val = None
        /\ (\A n \in 1..Len(parse.s) : parse.s[n] \notin DigitSet) => parse.val = None

-----------------------------------------------------------------------------
(* Properties of the cache and of the API-key guard *)

\* C13: after a successful /refresh for a key the CSV cache of the key holds the
\* bytes just downloaded and the JSON cache holds the conversion of that CSV, also
\* when cache files of the key existed before; a /data answered after it returns
\* the items of the latest download.
C13_CacheHoldsLatestDownload ==
    \A i \in ApiInvs :
        (inv[i].pc = "done" /\ inv[i].response.status_code = 200)
        => LET k == inv[i].payload.key
           IN  /\ cache_csv[k] = Download(i)
               /\ cache_json[k] = CsvToJson(Download(i))
               /\ (req.endpoint = "/data" /\ req.status_code = 200 /\ req.key = k)
                     => req.body \in {CsvToJson(Download(i)), CsvToJson(Earlier)}

\* C14: with a server key configured, a request to /refresh, /data or /csv whose
\* X-API-Key header is absent or differs from it is answered 401 before the body
\* of the endpoint runs: no payload is read, the browser flow is not started and no
\* cache file changes; a request with the right header is let in; without a server
\* key every request is let in.
C14_ApiKeyGuard ==
    /\ [](\A i \in Invs :
            LET rejected == api_key # "" /\ inv[i].x_api_key # api_key
            IN  /\ inv[i].pc = "refresh" => ~rejected
                /\ inv[i].response.status_code = 401
                      => /\ rejected
                         /\ inv[i].pc = "done"
                         /\ inv[i].payload = Fresh.payload
                         /\ inv[i].log_messages = << >>
                         /\ inv[i].pw = "none" /\ inv[i].browser = "none"
                         /\ ~inv[i].navigated /\ ~inv[i].stored)
    /\ [](req # NoRequest
            => (req.status_code = 401 <=> (api_key # "" /\ req.x_api_key # api_key)))
    /\ [][ (\/ req' # req /\ req'.status_code = 401
            \/ \E i \in Invs : inv'[i] # inv[i] /\ inv'[i].response.status_code = 401)
          => UNCHANGED <<tmp_files, cache_csv, cache_json>> ]_vars

\* With a key configured: a /refresh with a wrong header was rejected, and the last
\* /data request, with no header, was rejected while the cache is filled.
C14_Witness ==
    /\ api_key = "k3y"
    /\ \E i \in Invs :
          /\ inv[i].pc = "done" /\ inv[i].response.status_code = 401
          /\ inv[i].x_api_key = "wrong"
    /\ req.endpoint = "/data" /\ req.x_api_key = NoHeader /\ req.status_code = 401
    /\ \E k \in Keys : cache_json[k] # NoFile

====
